---- MODULE Spec2Model ----
(***************************************************************************)
(* Model of the tool-augmented agent loop of src/agent.cxx: the            *)
(* ToolRegistry (a std::map of Tool), the Agent session (api_key, model,   *)
(* max_iterations, conversation_history) and the recursive                 *)
(* run -> run_iteration -> call_api -> process_response protocol.          *)
(***************************************************************************)
EXTENDS Integers, Sequences, FiniteSets, TLC

(* ------------------------------ bounds -------------------------------- *)

\* Largest iteration bound a session is constructed with.
MaxIter == 2
\* Largest number of content blocks in one backend response.
MaxBlocks == 2
\* A run is started only while the history is at most this long.
MaxHistoryAtRun == 2

(* ------------------------- JSON values in use -------------------------- *)

\* Content blocks as the backend sends them (response["content"] elements).
TextBlock(t) == [type |-> "text", text |-> t]
ToolUseBlock(i, n, inp) == [type |-> "tool_use", id |-> i, name |-> n, input |-> inp]

\* The tool_result block built at agent.cxx:155-159.
ToolResultBlock(i, r) == [type |-> "tool_result", tool_use_id |-> i, content |-> r]

\* A message whose content is a plain string (agent.cxx:221-224).
StringMessage(r, s) == [role |-> r, content |-> [is_string |-> TRUE, str |-> s]]
\* A message whose content is an array of blocks (agent.cxx:146-149,152-161).
ArrayMessage(r, a) == [role |-> r, content |-> [is_string |-> FALSE, arr |-> a]]

\* Parameter objects the backend puts in a tool_use block.
ToolInputs == {[text |-> "hi"]}

\* The tool names in use; the empty string is a std::string like any other.
ToolNames == {"", "calc", "echo", "time"}

\* std::less<std::string> on the names in use: position in ascending order.
NameRank(n) == CASE n = "" -> 0 [] n = "calc" -> 1 [] n = "echo" -> 2 [] n = "time" -> 3

\* The content blocks a backend response is built from.
ResponseBlocks ==
  { TextBlock("hi"),
    ToolUseBlock("t1", "echo", [text |-> "hi"]),
    ToolUseBlock("t2", "calc", [text |-> "hi"]) }

\* Sequences of at most n elements of S.
RECURSIVE SeqsUpTo(_, _)
SeqsUpTo(S, n) ==
  IF n = 0 THEN {<<>>}
  ELSE LET shorter == SeqsUpTo(S, n - 1)
       IN  shorter \cup {Append(s, b) : s \in {t \in shorter : Len(t) = n - 1}, b \in S}

\* Parsed JSON documents a response body can hold: the members present at
\* the top level and, when "content" is one of them, its blocks.
JsonObject(keys, blocks) == [members |-> keys, content |-> blocks]
EmptyObject == JsonObject({}, <<>>)

\* HTTP responses of the backend: status code and body text. A body is
\* either well-formed JSON text (of the document doc) or not JSON at all.
HttpResponse(code, ok, d) == [status_code |-> code, text |-> [wellformed |-> ok, doc |-> d]]

HttpResponses ==
  {HttpResponse(500, TRUE, JsonObject({"error"}, <<>>)),
   HttpResponse(200, FALSE, EmptyObject),
   HttpResponse(200, TRUE, EmptyObject),
   HttpResponse(200, TRUE, JsonObject({"error"}, <<>>))}
  \cup {HttpResponse(200, TRUE, JsonObject({"content"}, c)) : c \in SeqsUpTo(ResponseBlocks, MaxBlocks)}

(* ------------------------------- tools -------------------------------- *)

\* What invoking a std::function executor does: return a string or throw a
\* std::exception whose what() is the message.
Returns(s) == [threw |-> FALSE, value |-> s]
Throws(msg) == [threw |-> TRUE, value |-> msg]

\* The executors of the tools in use.
Invoke(executor, params) ==
  CASE executor = "echo"  -> Returns(params.text)
    [] executor = "const" -> Returns("42")
    [] executor = "clock" -> Returns("2024-01-01 00:00:00")
    [] executor = "fail"  -> Throws("boom")

Tool(n, d, s, e) == [name |-> n, description |-> d, input_schema |-> s, executor |-> e]

\* The tools a session registers between its runs: "echo", and a second tool
\* of the same name whose capability raises.
ToolCatalog ==
  { Tool("echo", "echo v1", "schema1", "echo"),
    Tool("echo", "echo v2", "schema2", "fail") }

\* The tools registered with a registry on its own.
RegistryCatalog ==
  ToolCatalog \cup
  { Tool("calc", "calc v1", "schema3", "const"),
    Tool("calc", "calc v2", "schema4", "fail"),
    Tool("time", "time", "schema5", "clock"),
    Tool("", "unnamed", "schema6", "const") }

\* Tool::to_json
to_json(tool) ==
  [name |-> tool.name, description |-> tool.description, input_schema |-> tool.input_schema]

(* ------------------------------ state --------------------------------- *)

VARIABLES
  api_key,                \* Agent::api_key
  model,                  \* Agent::model
  max_iterations,         \* Agent::max_iterations
  tools,                  \* ToolRegistry::tools, a map from name to Tool
  conversation_history,   \* Agent::conversation_history
  pc,                     \* where the session is: "idle" between calls of the
                          \* public interface, or a position inside run
  iteration,              \* parameter of run_iteration / process_response
  assistant_content,      \* local of process_response
  tool_name, tool_id, tool_input, result,   \* locals of the tool_use branch
  surfaced,               \* the texts process_response printed for the caller
  unread_tool_use,        \* the response being dispatched holds a further
                          \* tool_use block after the one the loop stopped at
  outcome,                \* how the last run ended
  calls,                  \* backend calls made by the current run
  pre_run_history,        \* the history when the current run was called
  only_tool_use,          \* every call of the current run returned a tool_use
  executions,             \* calls of tool_registry.execute by the current run
  latest,                 \* per name, the tool most recently registered
  first_inserted          \* the names in the order of their first registration

agentVars == <<api_key, model, max_iterations, tools, conversation_history>>
localVars == <<iteration, assistant_content, tool_name, tool_id, tool_input, result,
               surfaced, unread_tool_use>>
runVars == <<outcome, calls, pre_run_history, only_tool_use, executions>>
regVars == <<latest, first_inserted>>
vars == <<agentVars, pc, localVars, runVars, regVars>>

(* ---------------------------- ToolRegistry ---------------------------- *)

\* register_tool written with std::map::insert, which keeps an existing entry.
register_tool_insert(m, tool) ==
  [n \in (DOMAIN m) \cup {tool.name} |-> IF n \in DOMAIN m THEN m[n] ELSE tool]

\* ToolRegistry::register_tool: tools[tool.name] = tool on a std::map.
register_tool(m, tool) ==
  [n \in (DOMAIN m) \cup {tool.name} |-> IF n = tool.name THEN tool ELSE m[n]]

\* execute returning e.what() without the "Error: " prefix.
execute_unprefixed(m, name, params) ==
  IF name \in DOMAIN m
  THEN [ret |-> Invoke(m[name].executor, params).value,
        invoked |-> {m[name].executor}, tools |-> m]
  ELSE [ret |-> "Error: Tool '" \o name \o "' not found", invoked |-> {}, tools |-> m]

\* execute written with tools[tool_name] instead of tools.find: a missing name
\* is inserted with a default Tool, whose empty executor throws
\* std::bad_function_call.
execute_subscript(m, name, params) ==
  LET m2 == IF name \in DOMAIN m THEN m
            ELSE [n \in (DOMAIN m) \cup {name} |->
                    IF n = name THEN Tool("", "", "", "") ELSE m[n]]
  IN  IF name \in DOMAIN m
      THEN LET r == Invoke(m[name].executor, params)
           IN  [ret |-> IF r.threw THEN "Error: " \o r.value ELSE r.value,
                invoked |-> {m[name].executor}, tools |-> m2]
      ELSE [ret |-> "Error: bad_function_call", invoked |-> {""}, tools |-> m2]

\* ToolRegistry::execute: the string returned, the executors invoked, and the
\* map afterwards (tools.find inserts nothing).
execute(m, name, params) ==
  IF name \in DOMAIN m
  THEN LET r == Invoke(m[name].executor, params)
       IN  IF r.threw
           THEN [ret |-> "Error: " \o r.value, invoked |-> {m[name].executor}, tools |-> m]
           ELSE [ret |-> r.value, invoked |-> {m[name].executor}, tools |-> m]
  ELSE [ret |-> "Error: Tool '" \o name \o "' not found", invoked |-> {}, tools |-> m]

\* A map iterated in descending key order (std::greater as the comparator).
RECURSIVE MapOrderDescending(_)
MapOrderDescending(keys) ==
  IF keys = {} THEN <<>>
  ELSE LET first == CHOOSE n \in keys : \A k \in keys : NameRank(n) >= NameRank(k)
       IN  <<first>> \o MapOrderDescending(keys \ {first})

\* Iteration order of a std::map<std::string, Tool>: ascending keys.
RECURSIVE MapOrder(_)
MapOrder(keys) ==
  IF keys = {} THEN <<>>
  ELSE LET first == CHOOSE n \in keys : \A k \in keys : NameRank(n) <= NameRank(k)
       IN  <<first>> \o MapOrder(keys \ {first})

\* ToolRegistry::get_tool_definitions
get_tool_definitions(m) ==
  LET order == MapOrder(DOMAIN m)
  IN  [i \in 1..Len(order) |-> to_json(m[order[i]])]

\* ToolRegistry::has_tools
has_tools(m) == DOMAIN m # {}

(* ------------------------------- Agent -------------------------------- *)

\* json::parse of a response body: throws on text that is not JSON.
json_parse(text) ==
  IF text.wellformed THEN [threw |-> FALSE, json |-> text.doc]
  ELSE [threw |-> TRUE, json |-> EmptyObject]

\* Agent::call_api, from the HTTP response on: an empty object for a status
\* other than 200, the parsed body otherwise.
call_api(http) ==
  IF http.status_code # 200 THEN [threw |-> FALSE, json |-> EmptyObject]
  ELSE json_parse(http.text)

\* An emptiness test that also rejects a content array without blocks.
json_empty_or_no_blocks(doc) == doc.members = {} \/ doc.content = << >>

\* json::empty() on a response document.
json_empty(doc) == doc.members = {}

\* process_response without its contains("content") test.
json_contains_unchecked(doc, key) == TRUE

\* json::contains() on a response document.
json_contains(doc, key) == key \in doc.members

\* The loop of process_response without the return in the tool_use branch:
\* every block of the response is pushed, the first tool_use is dispatched.
ScanAllBlocks(content, i, acc) ==
  LET uses == {j \in i..Len(content) : content[j].type = "tool_use"}
  IN  [has_tool_use |-> uses # {},
       assistant_content |-> acc \o SubSeq(content, i, Len(content)),
       at |-> IF uses = {} THEN 0 ELSE CHOOSE j \in uses : \A k \in uses : j <= k]

\* The loop dispatching the last tool_use of the response instead of the first.
ScanToLastToolUse(content, i, acc) ==
  LET uses == {j \in i..Len(content) : content[j].type = "tool_use"}
      last == IF uses = {} THEN 0 ELSE CHOOSE j \in uses : \A k \in uses : j >= k
  IN  [has_tool_use |-> uses # {},
       assistant_content |-> acc \o SubSeq(content, i, IF uses = {} THEN Len(content) ELSE last),
       at |-> last]

\* The loop with the push_back moved into the tool_use branch: text blocks
\* are printed but not kept.
ScanBlocksDropText(content, i, acc) ==
  LET uses == {j \in i..Len(content) : content[j].type = "tool_use"}
      first == IF uses = {} THEN 0 ELSE CHOOSE j \in uses : \A k \in uses : j <= k
  IN  [has_tool_use |-> uses # {},
       assistant_content |-> IF uses = {} THEN acc ELSE Append(acc, content[first]),
       at |-> first]

\* The for loop of process_response: push every block on assistant_content,
\* up to and including the first tool_use block, where the loop is left.
RECURSIVE ScanBlocks(_, _, _)
ScanBlocks(content, i, acc) ==
  IF i > Len(content)
  THEN [has_tool_use |-> FALSE, assistant_content |-> acc, at |-> 0]
  ELSE LET pushed == Append(acc, content[i])
       IN  IF content[i].type = "tool_use"
           THEN [has_tool_use |-> TRUE, assistant_content |-> pushed, at |-> i]
           ELSE ScanBlocks(content, i + 1, pushed)

\* The recursion test letting the first iteration always recurse.
MayContinueOrFirst(it, bound) == it < bound \/ it = 1

\* The recursion test written with <=: one call too many.
MayContinueInclusive(it, bound) == it <= bound

\* The test that lets process_response recurse (agent.cxx:164).
MayContinue(it, bound) == it < bound

\* A reset that keeps the first message of a longer history.
ResetHistoryKeepFirst(h) == IF Len(h) > 1 THEN <<h[1]>> ELSE << >>

\* The value reset() assigns to conversation_history.
ResetHistory(h) == <<>>

\* An append that overwrites the last message instead of adding one.
push_back_overwrite(h, m) == IF h = << >> THEN <<m>> ELSE [h EXCEPT ![Len(h)] = m]

\* json::push_back on conversation_history.
push_back(h, m) == Append(h, m)

\* The tool_result message sent with the assistant's role.
ToolResultMessageAsAssistant(id, r) == ArrayMessage("assistant", <<ToolResultBlock(id, r)>>)

\* The message of agent.cxx:152-161: role user, one tool_result block.
ToolResultMessage(id, r) == ArrayMessage("user", <<ToolResultBlock(id, r)>>)

\* The test of agent.cxx:174 inverted: the final answer is not appended.
AppendFinalInverted(h, has_tool_use, content) ==
  IF has_tool_use THEN push_back(h, ArrayMessage("assistant", content)) ELSE h

\* agent.cxx:173-179: without a tool_use, the accumulated content is appended
\* as one assistant message.
AppendFinal(h, has_tool_use, content) ==
  IF ~has_tool_use THEN push_back(h, ArrayMessage("assistant", content)) ELSE h

\* The texts printed at agent.cxx:129-131 for the blocks the loop went through.
RECURSIVE Surfaced(_)
Surfaced(blocks) ==
  IF blocks = << >> THEN << >>
  ELSE IF Head(blocks).type = "text"
       THEN <<Head(blocks).text>> \o Surfaced(Tail(blocks))
       ELSE Surfaced(Tail(blocks))

\* A request carrying only the newest message of the history.
build_request_delta(model_name, messages, tool_defs) ==
  LET delta == IF messages = << >> THEN << >> ELSE <<messages[Len(messages)]>>
  IN  IF tool_defs # << >>
      THEN [model |-> model_name, max_tokens |-> 4096, messages |-> delta, tools |-> tool_defs]
      ELSE [model |-> model_name, max_tokens |-> 4096, messages |-> delta]

\* The request of call_api (agent.cxx:86-94): tools only when not empty.
build_request(model_name, messages, tool_defs) ==
  IF tool_defs # << >>
  THEN [model |-> model_name, max_tokens |-> 4096, messages |-> messages, tools |-> tool_defs]
  ELSE [model |-> model_name, max_tokens |-> 4096, messages |-> messages]

\* A reset that rebuilds the session: registry, model and bound are lost.
reset_session(agent) ==
  [api_key |-> agent.api_key, model |-> "claude-sonnet-4-20250514", max_iterations |-> 10,
   tools |-> << >>, conversation_history |-> ResetHistory(agent.conversation_history)]

\* Agent::reset on the members of the session.
reset(agent) ==
  [agent EXCEPT !.conversation_history = ResetHistory(agent.conversation_history)]

\* Values the constructor is given for max_iter.
IterBounds == {-1, 0} \cup (1..MaxIter)

NoTool == Tool("", "", "", "")

Init ==
  /\ api_key = "key"
  /\ model = "claude-sonnet-4-20250514"
  /\ max_iterations \in IterBounds
  /\ tools = << >>
  /\ conversation_history = << >>
  /\ pc = "idle"
  /\ iteration = 0
  /\ assistant_content = << >>
  /\ tool_name = ""
  /\ tool_id = ""
  /\ tool_input = [text |-> ""]
  /\ result = ""
  /\ surfaced = << >>
  /\ unread_tool_use = FALSE
  /\ outcome = "none"
  /\ executions = 0
  /\ calls = 0
  /\ pre_run_history = << >>
  /\ only_tool_use = TRUE
  /\ latest = [n \in ToolNames |-> NoTool]
  /\ first_inserted = << >>

\* Agent::register_tool
RegisterTool(tool) ==
  /\ pc = "idle"
  /\ tools' = register_tool(tools, tool)
  /\ latest' = [latest EXCEPT ![tool.name] = tool]
  /\ first_inserted' = IF \E i \in 1..Len(first_inserted) : first_inserted[i] = tool.name
                       THEN first_inserted
                       ELSE Append(first_inserted, tool.name)
  /\ UNCHANGED <<api_key, model, max_iterations, conversation_history, pc, localVars, runVars>>

\* Agent::run up to the first run_iteration(1)
Run(user_input) ==
  /\ pc = "idle"
  /\ Len(conversation_history) <= MaxHistoryAtRun
  /\ conversation_history' = push_back(conversation_history, StringMessage("user", user_input))
  /\ iteration' = 1
  /\ pc' = "call"
  /\ outcome' = "running"
  /\ calls' = 0
  /\ executions' = 0
  /\ pre_run_history' = conversation_history
  /\ only_tool_use' = TRUE
  /\ UNCHANGED <<api_key, model, max_iterations, tools, assistant_content,
                 tool_name, tool_id, tool_input, result, surfaced, unread_tool_use, regVars>>

\* The run ends: control is back in the caller of run().
EndRun(how) ==
  /\ pc' = "idle"
  /\ outcome' = how

\* The request run_iteration sends in the current state (agent.cxx:188-192).
Request ==
  build_request(model, conversation_history,
                IF has_tools(tools) THEN get_tool_definitions(tools) ELSE << >>)

\* Agent::run_iteration: call_api answers with http; then process_response up
\* to the point where a tool is about to be executed.
CallApi(http) ==
  /\ pc = "call"
  /\ calls' = calls + 1
  /\ LET r == call_api(http)
         scan == ScanBlocks(r.json.content, 1, << >>)
         block == r.json.content[scan.at]
     IN  IF r.threw
         THEN \* json::parse_error leaves run() and main(): std::terminate
              /\ pc' = "terminated"
              /\ outcome' = "terminated"
              /\ only_tool_use' = FALSE
              /\ UNCHANGED <<conversation_history, localVars>>
         ELSE IF json_empty(r.json) \/ ~json_contains(r.json, "content")
         THEN /\ EndRun("TransportError")
              /\ only_tool_use' = FALSE
              /\ UNCHANGED <<conversation_history, localVars>>
         ELSE IF ~scan.has_tool_use
         THEN /\ conversation_history' =
                   AppendFinal(conversation_history, scan.has_tool_use, scan.assistant_content)
              /\ assistant_content' = scan.assistant_content
              /\ surfaced' = Surfaced(scan.assistant_content)
              /\ EndRun("Finished")
              /\ only_tool_use' = FALSE
              /\ UNCHANGED <<iteration, tool_name, tool_id, tool_input, result, unread_tool_use>>
         ELSE /\ assistant_content' = scan.assistant_content
              /\ surfaced' = Surfaced(scan.assistant_content)
              /\ tool_name' = block.name
              /\ tool_id' = block.id
              /\ tool_input' = block.input
              /\ unread_tool_use' =
                   (\E j \in (scan.at + 1)..Len(r.json.content) :
                      r.json.content[j].type = "tool_use")
              /\ pc' = "execute"
              /\ UNCHANGED <<conversation_history, iteration, result, outcome, only_tool_use>>
  /\ UNCHANGED <<api_key, model, max_iterations, tools, pre_run_history, executions, regVars>>

\* agent.cxx:142: tool_registry.execute(tool_name, tool_input)
ExecuteTool ==
  /\ pc = "execute"
  /\ result' = execute(tools, tool_name, tool_input).ret
  /\ tools' = execute(tools, tool_name, tool_input).tools
  /\ executions' = executions + 1
  /\ pc' = "push_assistant"
  /\ UNCHANGED <<api_key, model, max_iterations, conversation_history, iteration,
                 assistant_content, tool_name, tool_id, tool_input, surfaced,
                 unread_tool_use, outcome, calls, pre_run_history, only_tool_use, regVars>>

\* agent.cxx:146-149: the assistant message with the tool_use
PushAssistant ==
  /\ pc = "push_assistant"
  /\ conversation_history' =
       push_back(conversation_history, ArrayMessage("assistant", assistant_content))
  /\ pc' = "push_result"
  /\ UNCHANGED <<api_key, model, max_iterations, tools, localVars, runVars, regVars>>

\* agent.cxx:152-169: the tool_result message, then recurse or give up; the
\* rest of the response is never read.
PushResult ==
  /\ pc = "push_result"
  /\ conversation_history' = push_back(conversation_history, ToolResultMessage(tool_id, result))
  /\ unread_tool_use' = FALSE
  /\ IF MayContinue(iteration, max_iterations)
     THEN /\ iteration' = iteration + 1
          /\ pc' = "call"
          /\ UNCHANGED outcome
     ELSE /\ EndRun("IterationLimitReached")
          /\ UNCHANGED iteration
  /\ UNCHANGED <<api_key, model, max_iterations, tools, assistant_content, tool_name,
                 tool_id, tool_input, result, surfaced, calls, pre_run_history,
                 only_tool_use, executions, regVars>>

\* The members of the session as one record.
AgentState ==
  [api_key |-> api_key, model |-> model, max_iterations |-> max_iterations,
   tools |-> tools, conversation_history |-> conversation_history]

\* Agent::reset
Reset ==
  /\ pc = "idle"
  /\ api_key' = reset(AgentState).api_key
  /\ model' = reset(AgentState).model
  /\ max_iterations' = reset(AgentState).max_iterations
  /\ tools' = reset(AgentState).tools
  /\ conversation_history' = reset(AgentState).conversation_history
  /\ UNCHANGED <<pc, localVars, runVars, regVars>>

\* ToolRegistry::execute called on the registry directly.
Execute(name, params) ==
  /\ pc = "idle"
  /\ tool_name' = name
  /\ tool_input' = params
  /\ result' = execute(tools, name, params).ret
  /\ tools' = execute(tools, name, params).tools
  /\ UNCHANGED <<api_key, model, max_iterations, conversation_history, pc, iteration,
                 assistant_content, tool_id, surfaced, unread_tool_use, runVars, regVars>>

UserInputs == {"hello"}

Next ==
  \/ \E tool \in ToolCatalog : RegisterTool(tool)
  \/ \E user_input \in UserInputs : Run(user_input)
  \/ \E http \in HttpResponses : CallApi(http)
  \/ ExecuteTool
  \/ PushAssistant
  \/ PushResult
  \/ Reset

Spec == Init /\ [][Next]_vars

\* A ToolRegistry on its own: registrations and executions in any order.
NextRegistry ==
  \/ \E tool \in RegistryCatalog : RegisterTool(tool)
  \/ \E name \in ToolNames : \E params \in ToolInputs : Execute(name, params)

SpecRegistry == Init /\ [][NextRegistry]_vars

(* ----------------------------- properties ----------------------------- *)

History == conversation_history

\* The tool_use blocks of message m.
ToolUsesOf(m) ==
  IF m.content.is_string THEN {}
  ELSE {m.content.arr[j] : j \in {k \in 1..Len(m.content.arr) : m.content.arr[k].type = "tool_use"}}

\* m is a user message holding exactly one block, the tool_result for id.
AnswersToolUse(m, id) ==
  /\ m.role = "user"
  /\ ~m.content.is_string
  /\ Len(m.content.arr) = 1
  /\ m.content.arr[1].type = "tool_result"
  /\ m.content.arr[1].tool_use_id = id

\* h[i], h[i+1] is an (assistant-with-ToolUse, user-with-ToolResult) pair.
IsToolPair(h, i) ==
  /\ i + 1 <= Len(h)
  /\ h[i].role = "assistant"
  /\ ToolUsesOf(h[i]) # {}
  /\ \A b \in ToolUsesOf(h[i]) : AnswersToolUse(h[i + 1], b.id)

\* C1: between runs, every assistant message of the history that holds a
\* ToolUse block is immediately followed by a user message holding exactly
\* one ToolResult block whose tool_use_id is that ToolUse's id.
C1_ToolUsePaired ==
  pc = "idle" =>
    \A i \in 1..Len(History) :
      (History[i].role = "assistant" /\ ToolUsesOf(History[i]) # {}) => IsToolPair(History, i)

\* A session between runs whose history holds two tool pairs, left by a run
\* that ended at its bound of 2.
C1_Witness ==
  /\ pc = "idle"
  /\ outcome = "IterationLimitReached"
  /\ \E i \in 1..Len(History) : \E j \in 1..Len(History) :
       /\ i < j
       /\ ToolUsesOf(History[i]) # {} /\ ToolUsesOf(History[j]) # {}
       /\ ToolUsesOf(History[i]) # ToolUsesOf(History[j])

\* C2: with a bound N >= 1, a run never makes more than N backend calls, and
\* a run whose every call returned a ToolUse ends in IterationLimitReached
\* after exactly N calls, having appended its user message and then exactly
\* N tool pairs.
C2_ExactlyBoundCalls ==
  /\ [](max_iterations >= 1 => calls <= max_iterations)
  /\ [][(pc # "idle" /\ pc' = "idle" /\ only_tool_use' /\ max_iterations >= 1) =>
          /\ outcome' = "IterationLimitReached"
          /\ calls' = max_iterations
          /\ Len(History') = Len(pre_run_history) + 1 + 2 * max_iterations
          /\ SubSeq(History', 1, Len(pre_run_history)) = pre_run_history
          /\ History'[Len(pre_run_history) + 1].role = "user"
          /\ History'[Len(pre_run_history) + 1].content.is_string
          /\ \A k \in 1..max_iterations : IsToolPair(History', Len(pre_run_history) + 2 * k)
       ]_vars

\* A run with bound 2 that was answered with a ToolUse twice and has ended.
C2_Witness ==
  /\ pc = "idle"
  /\ max_iterations = 2
  /\ only_tool_use
  /\ outcome = "IterationLimitReached"
  /\ calls = 2
  /\ Len(History) = Len(pre_run_history) + 5

\* C3: when the execution of a tool begins, the assistant message holding the
\* triggering ToolUse block is already the last message of the history.
C3_AssistantAppendedBeforeExecute ==
  pc = "execute" =>
    /\ Len(History) > 0
    /\ History[Len(History)] = ArrayMessage("assistant", assistant_content)

\* Responses that are a failed call: a status other than 200, or a parsed
\* body without a content member.
FailedResponses ==
  {http \in HttpResponses :
     \/ http.status_code # 200
     \/ (http.text.wellformed /\ "content" \notin http.text.doc.members)}

\* C4: a call that fails with a non-success status, or returns a body with no
\* content member, ends the run at once as a failure and leaves the history
\* exactly as it was when the call was issued; on the first call of a run
\* that is the pre-run history plus the run's user message.
C4_FailedCallLeavesHistory ==
  [][\A http \in FailedResponses :
       CallApi(http) =>
         /\ pc' = "idle"
         /\ outcome' = "TransportError"
         /\ History' = History
         /\ (iteration = 1 =>
               \E u \in UserInputs :
                 History' = Append(pre_run_history, StringMessage("user", u)))
    ]_vars

\* A run that failed on its second call, after one tool pair.
C4_Witness ==
  /\ pc = "idle"
  /\ outcome = "TransportError"
  /\ calls = 2
  /\ Len(History) = Len(pre_run_history) + 3
  /\ IsToolPair(History, Len(pre_run_history) + 2)

\* Responses with status 200 whose body is not JSON.
UnparseableResponses ==
  {http \in HttpResponses : http.status_code = 200 /\ ~http.text.wellformed}

\* C5: a 200 response with an unparseable body ends only the current run, as
\* TransportError, and leaves the session ready for the next run.
C5_UnparseableBodyIsTransportError ==
  [][\A http \in UnparseableResponses :
       CallApi(http) => (pc' = "idle" /\ outcome' = "TransportError")
    ]_vars

\* The tool being dispatched is registered and its capability raises.
CapabilityRaises ==
  /\ tool_name \in DOMAIN tools
  /\ Invoke(tools[tool_name].executor, tool_input).threw

\* The step that follows the appended ToolResult: back to the model below the
\* bound, IterationLimitReached at it.
ProceedsToNextState ==
  IF iteration < max_iterations
  THEN pc' = "call" /\ iteration' = iteration + 1 /\ outcome' = "running"
  ELSE pc' = "idle" /\ outcome' = "IterationLimitReached"

ToolMissing == tool_name \notin DOMAIN tools

\* C7: for a name that is not registered, execute returns exactly
\* "Error: Tool '<name>' not found", invokes no capability and leaves the
\* registry as it is; inside a run that string is the ToolResult content and
\* the run goes on.
C7_UnknownToolBecomesErrorString ==
  /\ [](\A n \in ToolNames \ DOMAIN tools : \A p \in ToolInputs :
          /\ execute(tools, n, p).ret = "Error: Tool '" \o n \o "' not found"
          /\ execute(tools, n, p).invoked = {}
          /\ execute(tools, n, p).tools = tools)
  /\ [](\A p \in ToolInputs : execute(tools, "calc", p).ret = "Error: Tool 'calc' not found")
  /\ [][(pc = "execute" /\ ToolMissing) =>
          /\ pc' = "push_assistant"
          /\ result' = "Error: Tool '" \o tool_name \o "' not found"
          /\ tools' = tools
       ]_vars
  /\ [][(pc = "push_result" /\ ToolMissing) =>
          /\ Len(History') = Len(History) + 1
          /\ IsToolPair(History', Len(History))
          /\ History'[Len(History')].content.arr[1].content =
               "Error: Tool '" \o tool_name \o "' not found"
          /\ ProceedsToNextState
       ]_vars

\* A run that went back to the model after asking for "calc", which the
\* session never registers.
C7_Witness ==
  /\ pc = "call"
  /\ iteration = 2
  /\ tool_name = "calc"
  /\ AnswersToolUse(History[Len(History)], tool_id)
  /\ History[Len(History)].content.arr[1].content = "Error: Tool 'calc' not found"

\* The records of definitions() that carry name n.
DefinitionsOf(n) ==
  {i \in 1..Len(get_tool_definitions(tools)) : get_tool_definitions(tools)[i].name = n}

\* C8: the registry holds at most one tool per name, the most recently
\* registered one: definitions() has exactly one record for the name, with
\* that tool's description and input_schema, and execute invokes that tool's
\* capability.
C8_LastRegistrationWins ==
  /\ Len(get_tool_definitions(tools)) = Cardinality(DOMAIN tools)
  /\ \A n \in ToolNames :
       /\ (n \in DOMAIN tools) <=> (latest[n] # NoTool)
       /\ n \in DOMAIN tools =>
            /\ tools[n] = latest[n]
            /\ Cardinality(DefinitionsOf(n)) = 1
            /\ \A i \in DefinitionsOf(n) :
                 /\ get_tool_definitions(tools)[i].description = latest[n].description
                 /\ get_tool_definitions(tools)[i].input_schema = latest[n].input_schema
            /\ \A p \in ToolInputs : execute(tools, n, p).invoked = {latest[n].executor}

\* "echo" v1 has answered a ToolUse (only its executor returns the text
\* sent) and "echo" has since been registered again as v2, next to "calc".
C8_Witness ==
  /\ tool_name = "echo"
  /\ result = "hi"
  /\ "calc" \in DOMAIN tools
  /\ latest["echo"] = Tool("echo", "echo v2", "schema2", "fail")

\* The names of the records of definitions(), in export order.
ExportedNames ==
  [i \in 1..Len(get_tool_definitions(tools)) |-> get_tool_definitions(tools)[i].name]

\* C9 as stated: definitions() lists the tools in the order in which their
\* names were first registered.
C9_ExportInInsertionOrder == ExportedNames = first_inserted

\* C9 as amended: definitions() holds one {name, description, input_schema}
\* record per registered tool, in ascending order of the names (the key
\* order of the std::map), whatever the order of registration.
C9_ExportInKeyOrder ==
  /\ {ExportedNames[i] : i \in 1..Len(ExportedNames)} = DOMAIN tools
  /\ Len(ExportedNames) = Cardinality(DOMAIN tools)
  /\ \A i \in 1..Len(ExportedNames) :
       get_tool_definitions(tools)[i] = to_json(tools[ExportedNames[i]])
  /\ \A i \in 1..Len(ExportedNames) : \A j \in 1..Len(ExportedNames) :
       i < j => NameRank(ExportedNames[i]) < NameRank(ExportedNames[j])

\* "echo" was registered before "calc".
C9_Witness ==
  /\ first_inserted = <<"echo", "calc">>
  /\ ExportedNames = <<"calc", "echo">>

\* C10: reset() leaves the history empty whatever it held, and a reset() of a
\* session whose history is already empty (as it is after a reset) changes
\* nothing, so reset(); reset() ends in the state of a single reset().
C10_ResetIdempotent ==
  [][Reset =>
       /\ History' = << >>
       /\ ResetHistory(History') = History'
       /\ (History = << >> => UNCHANGED vars)
    ]_vars

\* A session whose history was cleared after a finished run.
C10_Witness ==
  /\ pc = "idle"
  /\ outcome = "Finished"
  /\ History = << >>

\* C11: reset() changes nothing but the conversation history: the registry
\* with every tool in it, the credential, the model identifier and the
\* iteration bound are as before.
C11_ResetKeepsSession ==
  [][Reset => UNCHANGED <<tools, api_key, model, max_iterations>>]_vars

\* A session with a registered tool whose history was cleared after a run
\* that used it.
C11_Witness ==
  /\ pc = "idle"
  /\ History = << >>
  /\ outcome = "IterationLimitReached"
  /\ "echo" \in DOMAIN tools
  /\ result = "hi"

\* Responses with a content member.
ContentResponses ==
  {http \in HttpResponses :
     http.status_code = 200 /\ http.text.wellformed /\ "content" \in http.text.doc.members}

\* The blocks of a response.
ContentOf(http) == http.text.doc.content

\* The tool_use blocks are at these positions of a block sequence.
ToolUsePositions(blocks) == {j \in 1..Len(blocks) : blocks[j].type = "tool_use"}

\* Responses with a content member and no ToolUse block in it.
FinalResponses == {http \in ContentResponses : ToolUsePositions(ContentOf(http)) = {}}

\* h is the history before the run, then the run's user message, then n tool pairs.
RunPrefix(h, n) ==
  /\ Len(h) >= Len(pre_run_history) + 1 + 2 * n
  /\ SubSeq(h, 1, Len(pre_run_history)) = pre_run_history
  /\ h[Len(pre_run_history) + 1].role = "user"
  /\ h[Len(pre_run_history) + 1].content.is_string
  /\ \A k \in 1..n : IsToolPair(h, Len(pre_run_history) + 2 * k)

\* C12: a run answered with a ToolUse on its first k-1 calls and without one
\* on its k-th ends Finished after exactly k calls, having appended 2k
\* messages: the user message, k-1 tool pairs, one final assistant message.
\* With "echo" registered, k = 2 and an empty history at the start, the
\* history ends with 4 messages and the ToolResult holds the echoed text.
C12_FinishedAfterKCalls ==
  /\ [](pc = "call" => (calls = iteration - 1 /\ RunPrefix(History, calls)
                        /\ Len(History) = Len(pre_run_history) + 1 + 2 * calls))
  /\ [][pc = "call" => \A http \in FinalResponses :
          CallApi(http) =>
            /\ pc' = "idle"
            /\ outcome' = "Finished"
            /\ calls' = iteration
            /\ Len(History') = Len(pre_run_history) + 2 * calls'
            /\ RunPrefix(History', calls' - 1)
            /\ History'[Len(History')] = ArrayMessage("assistant", ContentOf(http))
            /\ ((calls' = 2 /\ pre_run_history = << >> /\ tool_name = "echo"
                 /\ "echo" \in DOMAIN tools /\ tools["echo"].executor = "echo") =>
                  /\ Len(History') = 4
                  /\ History'[3].content.arr[1].content = tool_input.text)
       ]_vars

\* The echo scenario: user, assistant with ToolUse, user with the echoed
\* text, assistant with text.
C12_Witness ==
  /\ pc = "idle"
  /\ outcome = "Finished"
  /\ calls = 2
  /\ History =
       << StringMessage("user", "hello"),
          ArrayMessage("assistant", <<ToolUseBlock("t1", "echo", [text |-> "hi"])>>),
          ArrayMessage("user", <<ToolResultBlock("t1", "hi")>>),
          ArrayMessage("assistant", <<TextBlock("hi")>>) >>

\* C13: no key of the registry and no record of definitions() has an empty
\* name, whatever was registered.
C13_NoEmptyName ==
  /\ "" \notin DOMAIN tools
  /\ \A i \in 1..Len(get_tool_definitions(tools)) : get_tool_definitions(tools)[i].name # ""

\* The blocks of a response up to and including its first tool_use, or all of
\* them when it has none.
ThroughFirstToolUse(blocks) ==
  IF ToolUsePositions(blocks) = {} THEN blocks
  ELSE SubSeq(blocks, 1, CHOOSE j \in ToolUsePositions(blocks) :
                           \A k \in ToolUsePositions(blocks) : j <= k)

\* The texts of the text blocks of a block sequence, in order.
TextsOf(blocks) ==
  LET at == {j \in 1..Len(blocks) : blocks[j].type = "text"}
      nth(n) == CHOOSE j \in at : Cardinality({k \in at : k < j}) = n - 1
  IN  [n \in 1..Cardinality(at) |-> blocks[nth(n)].text]

\* The assistant message of a tool dispatch is the accumulated content.
AssistantMessageIsContent ==
  pc = "push_assistant" =>
    History' = Append(History, ArrayMessage("assistant", assistant_content))

\* C14 as stated: the assistant content of a turn holds every block of the
\* response, in order, those after the first ToolUse included, and every
\* Text block is surfaced.
C14_EveryBlockRetained ==
  /\ [][pc = "call" => \A http \in ContentResponses :
          CallApi(http) =>
            /\ assistant_content' = ContentOf(http)
            /\ surfaced' = TextsOf(ContentOf(http))
       ]_vars
  /\ [][AssistantMessageIsContent]_vars

\* C14 as amended: the assistant content of a turn holds, in response order,
\* the blocks up to and including the first ToolUse (all blocks when there is
\* none); the Text blocks among them are surfaced; the blocks after the first
\* ToolUse are neither kept nor surfaced.
C14_BlocksThroughFirstToolUse ==
  /\ [][pc = "call" => \A http \in ContentResponses :
          CallApi(http) =>
            /\ assistant_content' = ThroughFirstToolUse(ContentOf(http))
            /\ surfaced' = TextsOf(ThroughFirstToolUse(ContentOf(http)))
            /\ (ToolUsePositions(ContentOf(http)) = {} =>
                  History' = Append(History, ArrayMessage("assistant", ContentOf(http))))
       ]_vars
  /\ [][AssistantMessageIsContent]_vars

\* A response held a tool_use and a further tool_use after it: the assistant
\* message appended for it holds the first alone.
C14_Witness ==
  /\ pc = "push_result"
  /\ unread_tool_use
  /\ History[Len(History)] = ArrayMessage("assistant", assistant_content)
  /\ Len(assistant_content) = 1

\* The ToolResult messages the current run has appended.
ResultsAppended ==
  Cardinality({i \in (Len(pre_run_history) + 1)..Len(History) :
                 /\ History[i].role = "user"
                 /\ ~History[i].content.is_string})

\* C15: of the ToolUse blocks of a response only the first is passed to
\* execute, and one ToolResult message is appended for it: a run never has
\* more tool executions, or ToolResult messages, than backend calls.
C15_SingleDispatch ==
  /\ [](pc # "idle" => (executions <= calls /\ ResultsAppended <= executions))
  /\ [](pc \in {"execute", "call"} => (ResultsAppended = executions))
  /\ [][pc = "call" => \A http \in ContentResponses :
          (CallApi(http) /\ ToolUsePositions(ContentOf(http)) # {}) =>
            LET first == ThroughFirstToolUse(ContentOf(http))
            IN  /\ pc' = "execute"
                /\ tool_id' = first[Len(first)].id
                /\ tool_name' = first[Len(first)].name
                /\ tool_input' = first[Len(first)].input
                /\ executions' = executions
       ]_vars
  /\ [][pc = "execute" =>
          /\ executions' = executions + 1
          /\ result' = execute(tools, tool_name, tool_input).ret
       ]_vars
  /\ [][(pc # "idle" /\ pc' = "idle") =>
          (executions' <= calls' /\ Len(History') - Len(pre_run_history) <= 1 + 2 * calls')
       ]_vars

\* A response held the ToolUse "t2" and a further ToolUse after it: "t2" has
\* been executed, once, and its result is about to be appended.
C15_Witness ==
  /\ pc = "push_result"
  /\ unread_tool_use
  /\ calls = 1
  /\ executions = 1
  /\ tool_id = "t2"
  /\ result = "Error: Tool 'calc' not found"

\* Responses whose content member is present and holds no block.
EmptyContentResponses == {http \in ContentResponses : ContentOf(http) = << >>}

\* C16: a successful response whose content holds zero blocks is no error: one
\* assistant message with empty content is appended, no tool is executed and
\* the run ends Finished.
C16_EmptyContentFinishes ==
  [][pc = "call" => \A http \in EmptyContentResponses :
       CallApi(http) =>
         /\ History' = Append(History, ArrayMessage("assistant", << >>))
         /\ executions' = executions
         /\ pc' = "idle"
         /\ outcome' = "Finished"
    ]_vars

\* A run that ended Finished on an empty assistant message after one tool pair.
C16_Witness ==
  /\ pc = "idle"
  /\ outcome = "Finished"
  /\ calls = 2
  /\ executions = 1
  /\ History[Len(History)] = ArrayMessage("assistant", << >>)

\* h is a prefix of g.
IsPrefix(h, g) == Len(h) <= Len(g) /\ SubSeq(g, 1, Len(h)) = h

\* C17: every step of a run, and register_tool, leaves the history it found as
\* a prefix of the history it leaves; only reset() makes the history shorter.
C17_AppendOnly ==
  /\ [][Reset \/ IsPrefix(History, History')]_vars
  /\ [][pc # "idle" => IsPrefix(History, History')]_vars
  /\ [][\A tool \in ToolCatalog : RegisterTool(tool) => History' = History]_vars

\* A second run has added its user message, a tool pair and an answer to the
\* two messages the first run left.
C17_Witness ==
  /\ pc = "idle"
  /\ Len(pre_run_history) = 2
  /\ Len(History) = 6
  /\ IsPrefix(pre_run_history, History)

\* The terminal states of a run.
Ended == outcome \in {"Finished", "TransportError", "IterationLimitReached"}

\* C18: a run called after a run has ended starts afresh: its iteration
\* counter is 1 and its calls are counted from zero, it appends its user
\* message to the history the earlier runs left, and its first request
\* carries that whole history.
C18_NextRunStartsAfresh ==
  /\ [][\A u \in UserInputs :
          (Run(u) /\ Ended) =>
            /\ iteration' = 1
            /\ calls' = 0
            /\ pc' = "call"
            /\ History' = Append(History, StringMessage("user", u))
            /\ Request'.messages = Append(History, StringMessage("user", u))
       ]_vars
  /\ [](pc = "call" => Request.messages = History)
  /\ [](pc = "call" /\ calls = 0 =>
          /\ iteration = 1
          /\ \E u \in UserInputs :
               Request.messages = Append(pre_run_history, StringMessage("user", u)))

\* A run called after a run that ended Finished at its bound of 1 is about to
\* send its first request, with the three messages of the history.
C18_Witness ==
  /\ pc = "call"
  /\ calls = 0
  /\ iteration = 1
  /\ max_iterations = 1
  /\ Len(pre_run_history) = 2
  /\ pre_run_history[2].role = "assistant"
  /\ Len(Request.messages) = 3

\* C19: whenever the backend is called the history is not empty and its last
\* message is a user message; no two assistant messages are ever adjacent.
C19_UserMessageLast ==
  /\ pc = "call" => (History # << >> /\ History[Len(History)].role = "user")
  /\ \A i \in 1..(Len(History) - 1) :
       ~(History[i].role = "assistant" /\ History[i + 1].role = "assistant")

\* Two user messages are adjacent while the backend is called: the user
\* message of a run that ended in TransportError, then the next run's.
C19_Witness ==
  /\ pc = "call"
  /\ calls = 0
  /\ Len(pre_run_history) = 1
  /\ History[1].role = "user"
  /\ History[2].role = "user"

\* The steps inside a run are taken: the backend call and the tool return,
\* and the code between them runs on.
SpecFair ==
  /\ Spec
  /\ WF_vars(\E http \in HttpResponses : CallApi(http))
  /\ WF_vars(ExecuteTool)
  /\ WF_vars(PushAssistant)
  /\ WF_vars(PushResult)

\* The calls a run may make at most.
CallLimit == IF max_iterations > 1 THEN max_iterations ELSE 1

\* C20: every run ends, for every sequence of responses and every bound: it
\* makes at least one and at most max(1, max_iterations) backend calls, the
\* iteration counter is 1, 2, 3, ... stepping by one per call, and with a
\* bound of zero or less a run that ends in IterationLimitReached has made
\* one call and executed one tool.
C20_RunsTerminate ==
  /\ (pc = "call") ~> (pc \in {"idle", "terminated"})
  /\ [](calls <= CallLimit)
  /\ []((pc = "idle" /\ Ended) => calls >= 1)
  /\ [](pc = "call" => iteration = calls + 1)
  /\ [](pc \in {"execute", "push_assistant", "push_result"} => iteration = calls)
  /\ [][pc = "call" => calls' = calls + 1]_vars
  /\ [][iteration' # iteration =>
          \/ (pc = "push_result" /\ pc' = "call" /\ iteration' = iteration + 1)
          \/ (pc = "idle" /\ pc' = "call" /\ iteration' = 1)
       ]_vars
  /\ []((max_iterations <= 0 /\ pc = "idle" /\ outcome = "IterationLimitReached") =>
          (calls = 1 /\ executions = 1))

\* A session with a negative bound whose run made one call, executed one
\* tool and ended in IterationLimitReached.
C20_Witness ==
  /\ max_iterations = -1
  /\ pc = "idle"
  /\ outcome = "IterationLimitReached"
  /\ calls = 1
  /\ executions = 1
  /\ Len(History) = Len(pre_run_history) + 3

====
